---------------------------- MODULE Spec2Model ----------------------------
(***************************************************************************)
(* A model of lib/ansible/plugins/filter/mathstuff.py: the set-theory      *)
(* filters, min/max, haversine and rekey_on_member.                         *)
(*                                                                         *)
(* Python values are modelled by what the code can observe of them: the    *)
(* container kind (which decides isinstance(x, collections.Hashable) and   *)
(* what `+`, `in` and set() do), the elements in iteration order, and for  *)
(* each element whether it is hashable.  An exception is a value whose     *)
(* kind is the exception's class; AnsibleFilterError is the library's      *)
(* "filter error", every other class is an error the library did not wrap. *)
(***************************************************************************)
EXTENDS Integers, Sequences, FiniteSets

VARIABLES
    \* rekey_on_member(data, key, duplicates)
    data, key, duplicates, data_in, pc, iterate_over, idx, new_obj, raised,
    \* the set-theory filters: the filter called, its arguments, the order in
    \* which this interpreter's sets iterate, the call's position and outcome,
    \* and, when the input came from a previous filter, that filter and its
    \* outcome
    op, a, b, hashOrder, spc, result, first, prev,
    \* haversine(coordinates), and whether the interpreter runs with -O
    coordinates, optimize, hpc, hres,
    \* min(a) and max(a)
    mop, ma, mpc, mres

rekey_vars == <<data, key, duplicates, data_in, pc, iterate_over, idx, new_obj, raised>>
set_vars == <<op, a, b, hashOrder, spc, result, first, prev>>

hav_vars == <<coordinates, optimize, hpc, hres>>
mm_vars == <<mop, ma, mpc, mres>>

vars == <<rekey_vars, set_vars, hav_vars, mm_vars>>

(***************************************************************************)
(* Bounds of the model.                                                    *)
(***************************************************************************)
MaxRecords == 3
MaxLen == 2
MaxCoords == 6
MaxColl == 3

(***************************************************************************)
(* Scalar values: hashable atoms (numbers, strings) and unhashable values  *)
(* (a nested list or dict).                                                *)
(***************************************************************************)
Atom(k) == [hashable |-> TRUE, id |-> k]
Nested(k) == [hashable |-> FALSE, id |-> k]

Atoms == {Atom(1), Atom(2)}
Nesteds == {Nested(1)}

SeqsUpTo(S, n) == UNION {[1..m -> S] : m \in 0..n}


(***************************************************************************)
(* Python containers and exceptions                                        *)
(***************************************************************************)
Elements == Atoms \cup Nesteds

Range(s) == {s[i] : i \in 1..Len(s)}

PyList(s) == [t |-> "list", items |-> s]
PyTuple(s) == [t |-> "tuple", items |-> s]
Exc(class) == [t |-> class, items |-> <<>>]
PyNone == [t |-> "None", items |-> <<>>]

Raises(x) == x.t \in {"TypeError", "ValueError", "KeyError", "AnsibleFilterError"}

Permutations(S) ==
    {s \in [1..Cardinality(S) -> S] : \A i, j \in 1..Cardinality(S) : s[i] = s[j] => i = j}

\* A set iterates in the order of its elements' hashes, which the code
\* cannot choose: hashOrder is that order.
SetOrder(S) == SelectSeq(hashOrder, LAMBDA x : x \in S)
PySet(S) == [t |-> "set", items |-> SetOrder(S)]

\* isinstance(x, collections.Hashable): a tuple defines __hash__, a list
\* and a set do not.  It looks at the container, not at its elements.
IsHashable(x) == x.t \in {"tuple"}

\* set(x): fails on an element that cannot be hashed.
MakeSet(x) ==
    IF \E e \in Range(x.items) : ~e.hashable
    THEN Exc("TypeError")
    ELSE PySet(Range(x.items))

\* `e in c`: a set hashes e first, a list or tuple compares element-wise.
InRaises(e, c) == c.t = "set" /\ ~e.hashable
In(e, c) == e \in Range(c.items)

\* a + b: defined for two lists or two tuples only.
Concat(x, y) ==
    IF x.t = "list" /\ y.t = "list" THEN PyList(x.items \o y.items)
    ELSE IF x.t = "tuple" /\ y.t = "tuple" THEN PyTuple(x.items \o y.items)
    ELSE Exc("TypeError")

\* s1 <op> s2 of two set() results: an exception of either propagates.
SetOp(x, y, S) == IF Raises(x) THEN x ELSE IF Raises(y) THEN y ELSE PySet(S)

(***************************************************************************)
(* unique, intersect, difference, symmetric_difference, union              *)
(***************************************************************************)
\* Lines 41-44: append each x not yet in c.
RECURSIVE AppendNew(_, _)
AppendNew(s, c) ==
    IF s = <<>> THEN c
    ELSE AppendNew(Tail(s), IF Head(s) \in Range(c) THEN c ELSE Append(c, Head(s)))

unique(x) ==
    IF IsHashable(x) THEN MakeSet(x)
    ELSE PyList(AppendNew(x.items, <<>>))

\* intersect with the comprehension testing `x in a` instead of `x in b`.
intersect_TestsFirstArgument(x, y) ==
    IF IsHashable(x) /\ IsHashable(y)
    THEN SetOp(MakeSet(x), MakeSet(y), Range(x.items) \cap Range(y.items))
    ELSE unique(PyList(SelectSeq(x.items, LAMBDA e : In(e, x))))

intersect(x, y) ==
    IF IsHashable(x) /\ IsHashable(y)
    THEN SetOp(MakeSet(x), MakeSet(y), Range(x.items) \cap Range(y.items))
    ELSE IF \E e \in Range(x.items) : InRaises(e, y) THEN Exc("TypeError")
    ELSE unique(PyList(SelectSeq(x.items, LAMBDA e : In(e, y))))

difference(x, y) ==
    IF IsHashable(x) /\ IsHashable(y)
    THEN SetOp(MakeSet(x), MakeSet(y), Range(x.items) \ Range(y.items))
    ELSE IF \E e \in Range(x.items) : InRaises(e, y) THEN Exc("TypeError")
    ELSE unique(PyList(SelectSeq(x.items, LAMBDA e : ~In(e, y))))

union(x, y) ==
    IF IsHashable(x) /\ IsHashable(y)
    THEN SetOp(MakeSet(x), MakeSet(y), Range(x.items) \cup Range(y.items))
    ELSE IF Raises(Concat(x, y)) THEN Concat(x, y)
    ELSE unique(Concat(x, y))

\* Line 68 evaluates union(a, b) once and intersect(a, b) for each element
\* of it.
symmetric_difference(x, y) ==
    IF IsHashable(x) /\ IsHashable(y)
    THEN SetOp(MakeSet(x), MakeSet(y),
               (Range(x.items) \cup Range(y.items)) \ (Range(x.items) \cap Range(y.items)))
    ELSE LET u == union(x, y)
             n == intersect(x, y)
         IN IF Raises(u) THEN u
            ELSE IF u.items = <<>> THEN unique(PyList(<<>>))
            ELSE IF Raises(n) THEN n
            ELSE IF \E e \in Range(u.items) : InRaises(e, n) THEN Exc("TypeError")
            ELSE unique(PyList(SelectSeq(u.items, LAMBDA e : ~In(e, n))))

Idle_Haversine ==
    /\ coordinates = PyNone /\ optimize = FALSE /\ hpc = "idle" /\ hres = PyNone

Idle_MinMax ==
    /\ mop = "none" /\ ma = PyNone /\ mpc = "idle" /\ mres = PyNone

Idle_Rekey ==
    /\ data = PyNone /\ key = "" /\ duplicates = "" /\ data_in = PyNone
    /\ pc = "idle" /\ iterate_over = <<>> /\ idx = 0 /\ new_obj = <<>> /\ raised = "none"

Ops == {"unique", "intersect", "difference", "symmetric_difference", "union"}

\* The containers a template can pass: lists and tuples of any elements,
\* and sets (the results of these filters), which hold hashable elements.
Containers(n) ==
    {PyList(s) : s \in SeqsUpTo(Elements, n)}
    \cup {PyTuple(s) : s \in SeqsUpTo(Elements, n)}
    \cup {PySet(S) : S \in SUBSET Atoms}

Idle_Sets ==
    /\ op = "none" /\ a = PyNone /\ b = PyNone /\ hashOrder = <<>>
    /\ spc = "idle" /\ result = PyNone /\ first = PyNone /\ prev = "none"

Init_Sets ==
    /\ hashOrder \in Permutations(Atoms)
    /\ op \in Ops
    /\ a \in Containers(MaxLen)
    /\ b \in Containers(MaxLen)
    /\ spc = "call"
    /\ result = PyNone
    /\ first = PyNone
    /\ prev = "none"
    /\ Idle_Rekey /\ Idle_Haversine /\ Idle_MinMax

Return(r) ==
    /\ result' = r
    /\ spc' = "done"
    /\ UNCHANGED <<op, a, b, hashOrder, first, prev, rekey_vars, hav_vars, mm_vars>>

CallUnique == spc = "call" /\ op = "unique" /\ Return(unique(a))
CallIntersect == spc = "call" /\ op = "intersect" /\ Return(intersect(a, b))
CallDifference == spc = "call" /\ op = "difference" /\ Return(difference(a, b))
CallSymmetricDifference ==
    spc = "call" /\ op = "symmetric_difference" /\ Return(symmetric_difference(a, b))
CallUnion == spc = "call" /\ op = "union" /\ Return(union(a, b))

\* The template pipes a filter's result into a next filter as its input.
Pipe ==
    /\ spc = "done"
    /\ prev = "none"
    /\ ~Raises(result)
    /\ a' = result
    /\ first' = result
    /\ op' \in Ops
    /\ prev' = op
    /\ spc' = "call"
    /\ result' = PyNone
    /\ UNCHANGED <<b, hashOrder, rekey_vars, hav_vars, mm_vars>>

Next_Sets ==
    \/ CallUnique
    \/ CallIntersect
    \/ CallDifference
    \/ CallSymmetricDifference
    \/ CallUnion
    \/ Pipe

SpecSets == Init_Sets /\ [][Next_Sets]_vars

(***************************************************************************)
(* Properties of the set-theory filters                                    *)
(***************************************************************************)
NoDuplicates(s) == \A i, j \in 1..Len(s) : s[i] = s[j] => i = j

FirstIndex(e, s) == CHOOSE i \in 1..Len(s) : s[i] = e /\ \A j \in 1..(i - 1) : s[j] # e

\* r lists elements of s, each once, in the order of their first
\* occurrence in s.
InFirstSeenOrder(r, s) ==
    /\ NoDuplicates(r)
    /\ Range(r) \subseteq Range(s)
    /\ \A i, j \in 1..Len(r) : i < j => FirstIndex(r[i], s) < FirstIndex(r[j], s)

InExactlyOne(x, y) ==
    (Range(x.items) \cup Range(y.items)) \ (Range(x.items) \cap Range(y.items))

\* difference(union(x, y), intersect(x, y)) as Python evaluates it: an
\* exception of an argument propagates.
DifferenceOfUnionAndIntersect(x, y) ==
    LET u == union(x, y)
        n == intersect(x, y)
    IN IF Raises(u) THEN u ELSE IF Raises(n) THEN n ELSE difference(u, n)

HasUnhashableElement(x) == \E e \in Range(x.items) : ~e.hashable

\* C4: for all a and b, symmetric_difference(a, b) returns a value equal
\* (==) to difference(union(a, b), intersect(a, b)), holding exactly the
\* elements that occur in exactly one of a and b.
C4_SymmetricDifference ==
    (spc = "done" /\ op = "symmetric_difference")
    => (/\ ~Raises(result)
        /\ result = DifferenceOfUnionAndIntersect(a, b)
        /\ Range(result.items) = InExactlyOne(a, b))

\* C5: unique is idempotent: when the result of unique(a) is passed to
\* unique again, the second result equals (==) the first.
C5_UniqueIdempotent ==
    (spc = "done" /\ op = "unique" /\ prev = "unique") => result = first

\* C7: when an input holds an element that cannot be hashed, the call
\* returns (it does not raise) a duplicate-free list in first-seen order of
\* the input elements, a's before b's, whatever the containers' kinds.
C7_OrderPreserving ==
    (/\ spc = "done"
     /\ HasUnhashableElement(a) \/ (op # "unique" /\ HasUnhashableElement(b)))
    => (/\ ~Raises(result)
        /\ result.t = "list"
        /\ InFirstSeenOrder(result.items,
                            IF op = "unique" THEN a.items ELSE a.items \o b.items))

HValues == {"num", "inf", "abc", "km", "None", "[]"}
HKeys == {"lat1", "lon1", "lat2", "lon2", "unit"}

HList(s) == [t |-> "list", items |-> s, f |-> [k \in {} |-> ""]]
HDict(m) == [t |-> "dict", items |-> <<>>, f |-> m]
HOther == [t |-> "str", items |-> <<>>, f |-> [k \in {} |-> ""]]

HInputs(n) ==
    {HList(s) : s \in SeqsUpTo(HValues, n)}
    \cup {HDict(m) : m \in UNION {[D -> HValues] : D \in SUBSET HKeys}}
    \cup {HOther}

FilterError(why) == [t |-> "AnsibleFilterError", items |-> <<why>>]
Returned(what) == [t |-> "returned", items |-> <<what>>]

\* float(v): ValueError for a string that is no number, TypeError for a
\* value that is neither a string nor a number.
FloatOf(v) ==
    IF v \in {"num", "inf"} THEN "ok"
    ELSE IF v \in {"abc", "km"} THEN "ValueError"
    ELSE "TypeError"

\* Lines 124-141: the failure of unpacking the argument, if any.
UnpackError(c) ==
    IF c.t = "list"
    THEN IF Len(c.items) \in {4, 5} THEN "none" ELSE "list_length"
    ELSE IF c.t = "dict"
    THEN IF {"lat1", "lon1", "lat2", "lon2"} \subseteq DOMAIN c.f THEN "none"
         ELSE "dict_keys"
    ELSE "not_list_or_dict"

\* lat1, lon1, lat2, lon2 in the order lines 144-147 convert them.
Coords(c) ==
    IF c.t = "list" THEN SubSeq(c.items, 1, 4)
    ELSE <<c.f["lat1"], c.f["lon1"], c.f["lat2"], c.f["lon2"]>>

\* 'unit' in locals(): the 5-element list and the dict bind unit.
UnitBound(c) == c.t = "dict" \/ Len(c.items) = 5

\* The value of unit when bound; coordinates.get('unit') is None when the
\* dict has no such key.
Unit(c) ==
    IF c.t = "list" THEN c.items[5]
    ELSE IF "unit" \in DOMAIN c.f THEN c.f["unit"] ELSE "None"

UnitGiven(c) == UnitBound(c) /\ Unit(c) # "None"

\* Lines 143-149: the first conversion that fails decides; only ValueError
\* is caught.
FirstFloatFailure(cs) ==
    IF \A i \in 1..4 : FloatOf(cs[i]) = "ok" THEN "ok"
    ELSE FloatOf(cs[CHOOSE i \in 1..4 :
                        FloatOf(cs[i]) # "ok" /\ \A j \in 1..(i - 1) : FloatOf(cs[j]) = "ok"])

\* Lines 151-155: the assert is compiled out under -O.
UnitCheckFails(c, opt) == ~opt /\ UnitGiven(c) /\ Unit(c) \notin {"m", "km"}

\* Lines 157-166: sin() of an infinity raises, and every exception here
\* is caught.
MathFails(cs) == \E i \in 1..4 : cs[i] = "inf"

\* Lines 168-174: diameter[unit] of an unknown unit raises KeyError, of an
\* unhashable one TypeError (reached only when the assert did not run).
Distance(c) ==
    IF UnitGiven(c)
    THEN IF Unit(c) \in {"m", "km"} THEN Returned(Unit(c))
         ELSE IF Unit(c) = "[]" THEN Exc("TypeError")
         ELSE Exc("KeyError")
    ELSE Returned("km and m")

haversine(c, opt) ==
    IF UnpackError(c) # "none" THEN FilterError(UnpackError(c))
    ELSE IF FirstFloatFailure(Coords(c)) = "ValueError" THEN FilterError("not_float")
    ELSE IF FirstFloatFailure(Coords(c)) = "TypeError" THEN Exc("TypeError")
    ELSE IF UnitCheckFails(c, opt) THEN FilterError("bad_unit")
    ELSE IF MathFails(Coords(c)) THEN FilterError("math")
    ELSE Distance(c)

Init_Haversine ==
    /\ coordinates \in HInputs(MaxCoords)
    /\ optimize \in BOOLEAN
    /\ hpc = "call"
    /\ hres = PyNone
    /\ Idle_Rekey /\ Idle_Sets /\ Idle_MinMax

HaversineCall ==
    /\ hpc = "call"
    /\ hres' = haversine(coordinates, optimize)
    /\ hpc' = "done"
    /\ UNCHANGED <<coordinates, optimize, rekey_vars, set_vars, mm_vars>>

Next_Haversine == HaversineCall

SpecHaversine == Init_Haversine /\ [][Next_Haversine]_vars

\* The inputs C8 names as invalid.
C8_InvalidInput ==
    \/ coordinates.t = "list" /\ Len(coordinates.items) \notin {4, 5}
    \/ coordinates.t = "dict" /\ ~({"lat1", "lon1", "lat2", "lon2"} \subseteq DOMAIN coordinates.f)
    \/ /\ UnpackError(coordinates) = "none"
       /\ \/ \E i \in 1..4 : FloatOf(Coords(coordinates)[i]) # "ok"
          \/ UnitGiven(coordinates) /\ Unit(coordinates) \notin {"m", "km"}

\* C8: haversine raises the filter error, and nothing else, whenever the
\* list has a length other than 4 or 5, the dict lacks one of lat1, lon1,
\* lat2, lon2, a coordinate cannot be parsed as a float (whatever its type,
\* a null or a nested collection included), or a unit is given that is
\* neither m nor km.
C8_HaversineErrors ==
    (hpc = "done" /\ C8_InvalidInput) => hres.t = "AnsibleFilterError"

(***************************************************************************)
(* min and max                                                             *)
(***************************************************************************)
IntVal(n) == [t |-> "int", v |-> n]
StrVal(n) == [t |-> "str", v |-> n]

MMElements == {IntVal(1), IntVal(2), IntVal(3), StrVal(1)}

MMInputs(n) == {PyList(s) : s \in SeqsUpTo(MMElements, n)}

\* x < y of Python 3: defined between two numbers or two strings.
Comparable(x, y) == x.t = y.t
Less(x, y) == x.v < y.v

\* The builtin min/max: ValueError on an empty argument; otherwise each
\* further element is compared with the best so far, and a comparison
\* that is not defined raises TypeError.
RECURSIVE Fold(_, _, _)
Fold(best, s, which) ==
    IF s = <<>> THEN Returned(best)
    ELSE IF ~Comparable(Head(s), best) THEN Exc("TypeError")
    ELSE IF which = "min" /\ Less(Head(s), best) THEN Fold(Head(s), Tail(s), which)
    ELSE IF which = "max" /\ Less(best, Head(s)) THEN Fold(Head(s), Tail(s), which)
    ELSE Fold(best, Tail(s), which)

Builtin(which, x) ==
    IF x.items = <<>> THEN Exc("ValueError")
    ELSE Fold(Head(x.items), Tail(x.items), which)

\* Lines 80-82 and 85-87: the builtin's result or exception, as it is.
min(x) == Builtin("min", x)
max(x) == Builtin("max", x)

Init_MinMax ==
    /\ mop \in {"min", "max"}
    /\ ma \in MMInputs(MaxColl)
    /\ mpc = "call"
    /\ mres = PyNone
    /\ Idle_Rekey /\ Idle_Sets /\ Idle_Haversine

CallMin ==
    /\ mpc = "call" /\ mop = "min"
    /\ mres' = min(ma)
    /\ mpc' = "done"
    /\ UNCHANGED <<mop, ma, rekey_vars, set_vars, hav_vars>>

CallMax ==
    /\ mpc = "call" /\ mop = "max"
    /\ mres' = max(ma)
    /\ mpc' = "done"
    /\ UNCHANGED <<mop, ma, rekey_vars, set_vars, hav_vars>>

Next_MinMax == CallMin \/ CallMax

SpecMinMax == Init_MinMax /\ [][Next_MinMax]_vars

MutuallyOrderable(s) == \A i, j \in 1..Len(s) : Comparable(s[i], s[j])

IsLeast(e, s) == e \in Range(s) /\ \A i \in 1..Len(s) : ~Less(s[i], e)
IsGreatest(e, s) == e \in Range(s) /\ \A i \in 1..Len(s) : ~Less(e, s[i])

\* C9: min(a) and max(a) return the least and the greatest element under
\* the natural ordering, and on an empty collection or one whose elements
\* are not mutually orderable they raise the filter error, never an error of
\* another kind.
C9_MinMax ==
    mpc = "done" =>
        IF ma.items # <<>> /\ MutuallyOrderable(ma.items)
        THEN /\ mres.t = "returned"
             /\ IF mop = "min" THEN IsLeast(mres.items[1], ma.items)
                ELSE IsGreatest(mres.items[1], ma.items)
        ELSE mres.t = "AnsibleFilterError"


(***************************************************************************)
(* rekey_on_member                                                         *)
(***************************************************************************)
FieldNames == {"id", "v"}

\* The values a field of a record may hold: the payload field "v" holds
\* atoms, the field "id" may also hold a nested (unhashable) value.
FieldValues(f) == IF f = "id" THEN Atoms \cup Nesteds ELSE Atoms

\* A record is a plain dict: a function from some of the field names.
RecordMaps ==
    UNION {{m \in [D -> Atoms \cup Nesteds] : \A f \in D : m[f] \in FieldValues(f)}
           : D \in SUBSET FieldNames}

EmptyMap == [f \in {} |-> Atom(1)]

Record(m) == [t |-> "dict", f |-> m]
NotARecord == [t |-> "int", f |-> EmptyMap]

Items == {Record(m) : m \in RecordMaps} \cup {NotARecord}

\* data: a mapping of records (its values, in iteration order), a sequence
\* of records, or something that is neither (a string, a number).
DataInputs(n) ==
    {[t |-> k, items |-> s] : k \in {"dict", "list"}, s \in SeqsUpTo(Items, n)}
    \cup {[t |-> k, items |-> <<>>] : k \in {"str", "int"}}

Keys == {"id", "v"}
DuplicatesInputs == {"error", "overwrite", "ignore"}

IsMapping(x) == x.t = "dict"
IsIterable(x) == x.t \in {"dict", "list", "str"}
IsString(x) == x.t = "str"

\* bool(x) of a mapping: it is non-empty.
Truthy(item) == DOMAIN item.f # {}

\* new_obj.get(key_elem, None): truthy exactly when the entry exists and is
\* a non-empty dict.
GetIsTruthy(obj, key_elem) ==
    key_elem \in DOMAIN obj /\ Truthy(obj[key_elem])

\* new_obj[key_elem] = item
SetItem(obj, key_elem, item) ==
    [k \in DOMAIN obj \cup {key_elem} |-> IF k = key_elem THEN item ELSE obj[k]]

\* Lines 202-203: the check of the duplicates parameter.
DuplicatesValid(d) == d \in {"error", "overwrite"}

\* Lines 207-212: what the loop iterates over, or the failure.
CanIterate(d) == IsMapping(d) \/ (IsIterable(d) /\ ~IsString(d))

\* EntryError with the type check of data made before the check of
\* duplicates.
EntryError_TypeCheckFirst(dup, d) ==
    IF ~CanIterate(d) THEN "not_iterable"
    ELSE IF ~DuplicatesValid(dup) THEN "unknown_duplicates"
    ELSE "none"

\* Lines 202-212: the failure rekey_on_member raises before its loop, if
\* any, in the order the code checks.
EntryError(dup, d) ==
    IF ~DuplicatesValid(dup) THEN "unknown_duplicates"
    ELSE IF ~CanIterate(d) THEN "not_iterable"
    ELSE "none"

\* StepError without the raise of line 229.
StepError_NoDuplicateRaise(obj, item, k, dup) ==
    IF ~IsMapping(item) THEN "item_not_dict"
    ELSE IF k \notin DOMAIN item.f THEN "key_not_found"
    ELSE IF ~item.f[k].hashable THEN "TypeError"
    ELSE "none"

\* Lines 214-233: what one iteration of the loop does with item: the
\* failure it raises ("none" when it raises nothing) and the accumulator
\* after it.
StepError(obj, item, k, dup) ==
    IF ~IsMapping(item) THEN "item_not_dict"
    ELSE IF k \notin DOMAIN item.f THEN "key_not_found"
    ELSE IF ~item.f[k].hashable THEN "TypeError"
    ELSE IF GetIsTruthy(obj, item.f[k]) /\ dup = "error" THEN "not_unique"
    ELSE "none"

\* StepObj with the overwrite branch keeping the earlier record.
StepObj_KeepsFirst(obj, item, k, dup) ==
    IF GetIsTruthy(obj, item.f[k]) THEN obj ELSE SetItem(obj, item.f[k], item)

\* StepObj without the else branch of line 232: only an existing entry is
\* ever assigned.
StepObj_NoElse(obj, item, k, dup) ==
    IF GetIsTruthy(obj, item.f[k])
    THEN IF dup = "overwrite" THEN SetItem(obj, item.f[k], item) ELSE obj
    ELSE obj

StepObj(obj, item, k, dup) ==
    IF GetIsTruthy(obj, item.f[k])
    THEN IF dup = "error" THEN obj
         ELSE IF dup = "overwrite" THEN SetItem(obj, item.f[k], item)
         ELSE obj
    ELSE SetItem(obj, item.f[k], item)

Init_Rekey ==
    /\ data \in DataInputs(MaxRecords)
    /\ key \in Keys
    /\ duplicates \in DuplicatesInputs
    /\ data_in = data
    /\ pc = "entry"
    /\ iterate_over = <<>>
    /\ idx = 0
    /\ new_obj = EmptyMap
    /\ raised = "none"
    /\ Idle_Sets /\ Idle_Haversine /\ Idle_MinMax

\* Lines 202-212.
RekeyEntry ==
    /\ pc = "entry"
    /\ raised' = EntryError(duplicates, data)
    /\ pc' = IF raised' = "none" THEN "loop" ELSE "raised"
    /\ iterate_over' = IF raised' = "none" THEN data.items ELSE iterate_over
    /\ new_obj' = EmptyMap
    /\ UNCHANGED <<data, key, duplicates, data_in, idx, set_vars, hav_vars, mm_vars>>

\* Lines 214-233: one iteration.
RekeyStep ==
    /\ pc = "loop"
    /\ idx < Len(iterate_over)
    /\ LET item == iterate_over[idx + 1]
           err == StepError(new_obj, item, key, duplicates)
       IN /\ raised' = err
          /\ pc' = IF err = "none" THEN "loop" ELSE "raised"
          /\ new_obj' = IF err = "none" THEN StepObj(new_obj, item, key, duplicates)
                        ELSE new_obj
          /\ idx' = idx + 1
    /\ UNCHANGED <<data, key, duplicates, data_in, iterate_over, set_vars, hav_vars, mm_vars>>

\* Line 235.
RekeyReturn ==
    /\ pc = "loop"
    /\ idx = Len(iterate_over)
    /\ pc' = "done"
    /\ UNCHANGED <<data, key, duplicates, data_in, iterate_over, idx, new_obj, raised, set_vars, hav_vars, mm_vars>>

Next_Rekey == RekeyEntry \/ RekeyStep \/ RekeyReturn

SpecRekey == Init_Rekey /\ [][Next_Rekey]_vars

(***************************************************************************)
(* Properties of rekey_on_member                                           *)
(***************************************************************************)
IsRecordWithKey(item) == IsMapping(item) /\ key \in DOMAIN item.f

AllRecordsWithKey == \A i \in 1..Len(data.items) : IsRecordWithKey(data.items[i])

AllKeyValuesHashable ==
    \A i \in 1..Len(data.items) :
        IsRecordWithKey(data.items[i]) => data.items[i].f[key].hashable

\* The records the loop has fully processed: the record a failure was
\* raised at is not one of them.
Processed == IF pc = "raised" /\ idx > 0 THEN idx - 1 ELSE idx

KeyValuesUpTo(n) == {iterate_over[i].f[key] : i \in 1..n}

\* The last position in data holding key value k.
LastIndexOf(k) ==
    CHOOSE i \in 1..Len(data.items) :
        /\ data.items[i].f[key] = k
        /\ \A j \in (i + 1)..Len(data.items) : data.items[j].f[key] # k

\* C1: with duplicates='error', when the record the loop is about to
\* examine has a value for `key` that is already a key of the accumulator
\* built from the records before it, the step raises the "is not unique"
\* filter error at that record and the call never returns a mapping.
C1_DuplicateRaises ==
    [][(/\ pc = "loop"
        /\ duplicates = "error"
        /\ idx < Len(iterate_over)
        /\ IsRecordWithKey(iterate_over[idx + 1])
        /\ iterate_over[idx + 1].f[key] \in DOMAIN new_obj)
       => (/\ pc' = "raised"
           /\ raised' = "not_unique"
           /\ idx' = idx + 1
           /\ new_obj' = new_obj)]_vars

C1_Witness ==
    /\ pc = "raised"
    /\ raised = "not_unique"
    /\ duplicates = "error"
    /\ AllRecordsWithKey
    /\ idx = 3
    /\ data.items[3].f[key] = data.items[1].f[key]
    /\ data.items[2].f[key] # data.items[1].f[key]

\* The call has returned a mapping that holds, for each key value of data,
\* the last record with that value.
C2_LastWins ==
    /\ pc = "done"
    /\ DOMAIN new_obj = {data.items[i].f[key] : i \in 1..Len(data.items)}
    /\ \A k \in DOMAIN new_obj : new_obj[k] = data.items[LastIndexOf(k)]

\* C2 as stated: with duplicates='overwrite', every collection of records
\* that all contain `key` makes the call return, and the mapping returned
\* holds, for each key value, the last record with that value.
C2_Original ==
    (/\ duplicates = "overwrite"
     /\ CanIterate(data)
     /\ AllRecordsWithKey
     /\ pc \notin {"entry", "loop"})
    => C2_LastWins

\* C2 amended: with duplicates='overwrite', every collection of records
\* that all contain `key` with a hashable value makes the call return, and
\* the mapping returned holds, for each key value, the last record in
\* iteration order with that value.
C2_Amended ==
    (/\ duplicates = "overwrite"
     /\ CanIterate(data)
     /\ AllRecordsWithKey
     /\ AllKeyValuesHashable
     /\ pc \notin {"entry", "loop"})
    => C2_LastWins

C2_Witness ==
    /\ pc = "done"
    /\ duplicates = "overwrite"
    /\ Len(data.items) = 3
    /\ AllRecordsWithKey
    /\ data.items[1].f[key] = data.items[2].f[key]
    /\ data.items[3].f[key] # data.items[1].f[key]
    /\ data.items[1] # data.items[2]
    /\ new_obj[data.items[1].f[key]] = data.items[2]

\* C3: a duplicates value other than 'error' and 'overwrite' makes the
\* call raise the "unknown value" filter error before anything of data is
\* looked at: no type check of data, no element examined, whatever data is.
C3_InvalidDuplicatesFirst ==
    (~DuplicatesValid(duplicates) /\ pc # "entry")
    => (/\ pc = "raised"
        /\ raised = "unknown_duplicates"
        /\ idx = 0
        /\ iterate_over = <<>>)

C3_Witness ==
    /\ pc = "raised"
    /\ raised = "unknown_duplicates"
    /\ ~CanIterate(data)

\* C10: at every point of the call the accumulator's keys are exactly the
\* `key` values of the records processed so far, every entry k holds one of
\* those records and that record's `key` value is k, and the input is as it
\* was passed; a call that returns has processed every record, so its
\* mapping has one entry per distinct key value and nothing else.
C10_LoopInvariant ==
    /\ data = data_in
    /\ pc \in {"loop", "done", "raised"} =>
        /\ DOMAIN new_obj = KeyValuesUpTo(Processed)
        /\ \A k \in DOMAIN new_obj :
              /\ new_obj[k].f[key] = k
              /\ \E i \in 1..Processed : new_obj[k] = iterate_over[i]
    /\ pc \in {"loop", "done"} => iterate_over = data_in.items
    /\ pc = "done" =>
        /\ idx = Len(data_in.items)
        /\ Cardinality(DOMAIN new_obj) =
              Cardinality({data_in.items[i].f[key] : i \in 1..Len(data_in.items)})

C10_Witness ==
    /\ pc = "done"
    /\ Len(data.items) = 3
    /\ Cardinality(DOMAIN new_obj) = 2

=============================================================================
